---------------------------- MODULE Spec2Model ----------------------------
(***************************************************************************)
(* A model of dumpcode (src/main.rs): the directory walk and file          *)
(* selection of generate_tree_view, the parallel assembly of               *)
(* generate_dump, the language classifier language_for_extension and the   *)
(* clipboard retry loop set_clipboard.                                     *)
(*                                                                         *)
(* Text is modelled as sequences of one-character strings, so that         *)
(* extension parsing, lower-casing, prefix/substring tests and the shebang *)
(* pattern are computed rather than assumed.  File bytes are the same      *)
(* sequences; the token "0xFF" stands for a byte that can occur in no      *)
(* UTF-8 encoding.                                                         *)
(***************************************************************************)
EXTENDS Integers, Sequences, FiniteSets, TLC

(***************************************************************************)
(* Static tables of the program.                                           *)
(***************************************************************************)

\* LANG_MAP: extension -> language tag (phf_map!).
LANG_MAP ==
    {
       <<<<"r","s">>, "rust">>,
       <<<<"g","o">>, "go">>,
       <<<<"c">>, "c">>,
       <<<<"c","p","p">>, "cpp">>,
       <<<<"c","c">>, "cpp">>,
       <<<<"c","x","x">>, "cpp">>,
       <<<<"h">>, "c">>,
       <<<<"h","p","p">>, "cpp">>,
       <<<<"h","x","x">>, "cpp">>,
       <<<<"j","s">>, "javascript">>,
       <<<<"t","s">>, "typescript">>,
       <<<<"j","s","x">>, "jsx">>,
       <<<<"t","s","x">>, "tsx">>,
       <<<<"h","t","m","l">>, "html">>,
       <<<<"c","s","s">>, "css">>,
       <<<<"s","c","s","s">>, "scss">>,
       <<<<"s","a","s","s">>, "scss">>,
       <<<<"l","e","s","s">>, "less">>,
       <<<<"j","a","v","a">>, "java">>,
       <<<<"k","t">>, "kotlin">>,
       <<<<"k","t","s">>, "kotlin">>,
       <<<<"s","c","a","l","a">>, "scala">>,
       <<<<"g","r","o","o","v","y">>, "groovy">>,
       <<<<"p","y">>, "python">>,
       <<<<"r","b">>, "ruby">>,
       <<<<"p","h","p">>, "php">>,
       <<<<"c","s">>, "csharp">>,
       <<<<"s","w","i","f","t">>, "swift">>,
       <<<<"p","l">>, "perl">>,
       <<<<"p","m">>, "perl">>,
       <<<<"l","u","a">>, "lua">>,
       <<<<"e","x">>, "elixir">>,
       <<<<"e","x","s">>, "elixir">>,
       <<<<"e","l","m">>, "elm">>,
       <<<<"h","s">>, "haskell">>,
       <<<<"e","r","l">>, "erlang">>,
       <<<<"f","s">>, "fsharp">>,
       <<<<"s","h">>, "bash">>,
       <<<<"b","a","s","h">>, "bash">>,
       <<<<"z","s","h">>, "bash">>,
       <<<<"f","i","s","h">>, "fish">>,
       <<<<"p","s","1">>, "powershell">>,
       <<<<"j","s","o","n">>, "json">>,
       <<<<"t","o","m","l">>, "toml">>,
       <<<<"y","a","m","l">>, "yaml">>,
       <<<<"y","m","l">>, "yaml">>,
       <<<<"x","m","l">>, "xml">>,
       <<<<"i","n","i">>, "ini">>,
       <<<<"c","o","n","f">>, "conf">>,
       <<<<"p","r","o","p","e","r","t","i","e","s">>, "properties">>,
       <<<<"s","q","l">>, "sql">>,
       <<<<"g","r","a","p","h","q","l">>, "graphql">>,
       <<<<"g","q","l">>, "graphql">>,
       <<<<"p","r","i","s","m","a">>, "prisma">>,
       <<<<"m","d">>, "markdown">>,
       <<<<"m","a","r","k","d","o","w","n">>, "markdown">>,
       <<<<"r","s","t">>, "rst">>,
       <<<<"t","x","t">>, "text">>,
       <<<<"c","s","v">>, "csv">>,
       <<<<"o","r","g">>, "org">>
    }

\* DEFAULT_EXTENSIONS_STR, split at ',' as main does.
DEFAULT_EXTENSIONS ==
    <<<<"r","s">>,
      <<"p","y">>,
      <<"j","s">>,
      <<"t","s">>,
      <<"j","s","x">>,
      <<"t","s","x">>,
      <<"g","o">>,
      <<"j","a","v","a">>,
      <<"c">>,
      <<"c","p","p">>,
      <<"c","c">>,
      <<"c","x","x">>,
      <<"h">>,
      <<"h","p","p">>,
      <<"h","x","x">>,
      <<"c","s">>,
      <<"r","b">>,
      <<"p","h","p">>,
      <<"s","c","a","l","a">>,
      <<"k","t">>,
      <<"k","t","s">>,
      <<"g","r","o","o","v","y">>,
      <<"p","l">>,
      <<"p","m">>,
      <<"s","w","i","f","t">>,
      <<"l","u","a">>,
      <<"e","x">>,
      <<"e","x","s">>,
      <<"e","l","m">>,
      <<"h","s">>,
      <<"e","r","l">>,
      <<"f","s">>,
      <<"s","h">>,
      <<"b","a","s","h">>,
      <<"z","s","h">>,
      <<"f","i","s","h">>,
      <<"p","s","1">>,
      <<"j","s","o","n">>,
      <<"t","o","m","l">>,
      <<"y","a","m","l">>,
      <<"y","m","l">>,
      <<"x","m","l">>,
      <<"i","n","i">>,
      <<"c","o","n","f">>,
      <<"p","r","o","p","e","r","t","i","e","s">>,
      <<"s","q","l">>,
      <<"g","r","a","p","h","q","l">>,
      <<"g","q","l">>,
      <<"p","r","i","s","m","a">>,
      <<"m","d">>,
      <<"m","a","r","k","d","o","w","n">>,
      <<"r","s","t">>,
      <<"t","x","t">>,
      <<"c","s","v">>,
      <<"o","r","g">>,
      <<"h","t","m","l">>,
      <<"c","s","s">>,
      <<"s","c","s","s">>,
      <<"s","a","s","s">>,
      <<"l","e","s","s">>,
      <<"t","e","x">>,
      <<"r","m","d">>,
      <<"b","a","t">>>>

\* The interpreter names detect_shebang recognises, with their tags.
INTERPRETERS ==
    {<<<<"p","y","t","h","o","n","3">>, "python">>,
      <<<<"p","y","t","h","o","n">>, "python">>,
      <<<<"r","u","b","y">>, "ruby">>,
      <<<<"n","o","d","e">>, "javascript">>,
      <<<<"n","o","d","e","j","s">>, "javascript">>,
      <<<<"b","a","s","h">>, "bash">>,
      <<<<"s","h">>, "bash">>,
      <<<<"p","e","r","l">>, "perl">>,
      <<<<"p","h","p">>, "php">>,
      <<<<"l","u","a">>, "lua">>,
      <<<<"R","s","c","r","i","p","t">>, "r">>}

(***************************************************************************)
(* Text primitives.                                                        *)
(***************************************************************************)

\* char::to_lowercase on the ASCII letters.
LowerOf ==
    ("A" :> "a") @@ ("B" :> "b") @@ ("C" :> "c") @@ ("D" :> "d") @@ ("E" :> "e") @@ ("F" :> "f") @@ ("G" :> "g") @@ ("H" :> "h") @@ ("I" :> "i") @@ ("J" :> "j") @@ ("K" :> "k") @@ ("L" :> "l") @@ ("M" :> "m") @@ ("N" :> "n") @@ ("O" :> "o") @@ ("P" :> "p") @@ ("Q" :> "q") @@ ("R" :> "r") @@ ("S" :> "s") @@ ("T" :> "t") @@ ("U" :> "u") @@ ("V" :> "v") @@ ("W" :> "w") @@ ("X" :> "x") @@ ("Y" :> "y") @@ ("Z" :> "z")

ToLowerChar(c) ==
    IF c \in DOMAIN LowerOf THEN LowerOf[c] ELSE c

\* str::to_lowercase
ToLowercase(s) ==
    [i \in 1..Len(s) |-> ToLowerChar(s[i])]

\* The characters the pattern class \w accepts.
WordChars ==
    {"a","b","c","d","e","f","g","h","i","j","k","l","m","n","o","p","q","r","s","t","u","v","w","x","y","z","A","B","C","D","E","F","G","H","I","J","K","L","M","N","O","P","Q","R","S","T","U","V","W","X","Y","Z","0","1","2","3","4","5","6","7","8","9","_"}

IsWord(c) ==
    c \in WordChars

\* The characters the pattern class \s accepts.
IsSpace(c) ==
    c \in {" ", "\t", "\n", "\r", "\f"}

\* str::starts_with
StartsWith(s, p) ==
    /\ Len(s) >= Len(p)
    /\ \A i \in 1..Len(p) : s[i] = p[i]

\* p occurs in s at position i
OccursAt(s, p, i) ==
    /\ i >= 1
    /\ i + Len(p) - 1 <= Len(s)
    /\ \A k \in 1..Len(p) : s[i + k - 1] = p[k]

\* str::contains
Contains(s, p) ==
    \E i \in 1..(Len(s) + 1) : OccursAt(s, p, i)

\* The first position from i on whose character does not satisfy the class
\* (Len(s) + 1 when the run reaches the end): a greedy \s* or \w+.
RECURSIVE SkipSpace(_, _)
SkipSpace(s, i) ==
    IF i <= Len(s) /\ IsSpace(s[i]) THEN SkipSpace(s, i + 1) ELSE i

RECURSIVE SkipWord(_, _)
SkipWord(s, i) ==
    IF i <= Len(s) /\ IsWord(s[i]) THEN SkipWord(s, i + 1) ELSE i

\* str::lines().next(): the text before the first "\n", without a "\r"
\* that directly precedes it; None (here <<>> with has = FALSE) for "".
FirstLine(s) ==
    IF Len(s) = 0 THEN [has |-> FALSE, line |-> <<>>]
    ELSE LET nl == {i \in 1..Len(s) : s[i] = "\n"}
             end == IF nl = {} THEN Len(s)
                    ELSE LET n == CHOOSE i \in nl : \A j \in nl : i <= j
                         IN  IF n > 1 /\ s[n - 1] = "\r" THEN n - 2 ELSE n - 1
         IN  [has |-> TRUE, line |-> SubSeq(s, 1, end)]

(***************************************************************************)
(* Language classifier.                                                    *)
(***************************************************************************)

\* LANG_MAP.get(ext)
LangMapHas(ext) ==
    \E p \in LANG_MAP : p[1] = ext

LangMapGet(ext) ==
    (CHOOSE p \in LANG_MAP : p[1] = ext)[2]

\* SHEBANG_RE.captures(line), first alternative:
\*   ^#!\s*/usr/bin/env\s+(\w+)
ShebangEnv(line) ==
    LET j  == SkipSpace(line, 3)
        k  == j + Len(<<"/","u","s","r","/","b","i","n","/","e","n","v">>)
        k2 == SkipSpace(line, k)
        e  == SkipWord(line, k2)
    IN  IF /\ StartsWith(line, <<"#", "!">>)
           /\ OccursAt(line, <<"/","u","s","r","/","b","i","n","/","e","n","v">>, j)
           /\ k2 > k
           /\ e > k2
        THEN [matched |-> TRUE, name |-> SubSeq(line, k2, e - 1)]
        ELSE [matched |-> FALSE, name |-> <<>>]

\* SHEBANG_RE.captures(line), second alternative:
\*   ^#!\s*/.*/(\w+)
\* the greedy .* ends at the last "/" that a word character follows.
ShebangPath(line) ==
    LET j  == SkipSpace(line, 3)
        ps == {p \in (j + 1)..(Len(line) - 1) :
                  line[p] = "/" /\ IsWord(line[p + 1])}
    IN  IF /\ StartsWith(line, <<"#", "!">>)
           /\ j <= Len(line)
           /\ line[j] = "/"
           /\ ps # {}
        THEN LET p == CHOOSE q \in ps : \A r \in ps : r <= q
             IN  [matched |-> TRUE,
                  name |-> SubSeq(line, p + 1, SkipWord(line, p + 1) - 1)]
        ELSE [matched |-> FALSE, name |-> <<>>]

\* The alternation is leftmost-first: the env form wins when it matches.
ShebangCaptures(line) ==
    IF ShebangEnv(line).matched THEN ShebangEnv(line) ELSE ShebangPath(line)

\* fn detect_shebang
detect_shebang(content) ==
    LET fl == FirstLine(content)
    IN  IF fl.has /\ ShebangCaptures(fl.line).matched
        THEN LET name == ShebangCaptures(fl.line).name
             IN  IF \E p \in INTERPRETERS : p[1] = name
                 THEN (CHOOSE p \in INTERPRETERS : p[1] = name)[2]
                 ELSE ""
        ELSE ""

\* fn detect_special_file
detect_special_file(content) ==
    IF Contains(content, <<"F","R","O","M"," ">>) THEN "dockerfile"
    ELSE IF Contains(content, <<"J","A","V","A","_","H","O","M","E">>) THEN "properties"
    ELSE ""

\* fn language_for_extension
language_for_extension(ext, content) ==
    IF LangMapHas(ext) THEN LangMapGet(ext)
    ELSE IF StartsWith(content, <<"#", "!">>) THEN detect_shebang(content)
    ELSE IF ext = <<>> THEN detect_special_file(content)
    ELSE ""

(***************************************************************************)
(* Bounds of the model.                                                    *)
(***************************************************************************)

\* The largest number of entries below the root of a scanned tree.
MaxEntries == 3

\* The largest value of --max-files that is tried.
MaxFilesCap == 2

(***************************************************************************)
(* The scanned directory tree.                                             *)
(***************************************************************************)

\* len / 1024 at the size test
KB == 1024

\* A file body of exactly n bytes that starts with prefix.
Pad(prefix, n) ==
    [i \in 1..n |-> IF i <= Len(prefix) THEN prefix[i] ELSE "x"]

\* The kinds of entry the walk can meet.  Every entry is one of these:
\*   kind      what entry.file_type() reports
\*   name      entry.file_name()
\*   bytes     the file's bytes (metadata.len() is their number)
\*   listable  fs::read_dir succeeds on the directory
\*   stat_ok   entry.metadata() succeeds (FALSE: deleted after the listing)
\*   readable  fs::File::open and read_to_end succeed
Catalog ==
    << [kind |-> "file", name |-> <<"m","a","i","n",".","r","s">>,
        bytes |-> <<"f","n"," ","m","a","i","n","(",")"," ","{","}","\n">>,
        listable |-> FALSE, stat_ok |-> TRUE, readable |-> TRUE],
       [kind |-> "dir", name |-> <<"s","r","c">>, bytes |-> <<>>,
        listable |-> TRUE, stat_ok |-> TRUE, readable |-> FALSE],
       [kind |-> "file", name |-> <<"L","I","B",".","P","Y">>,
        bytes |-> Pad(<<"#","!","/","u","s","r","/","b","i","n","/","e","n","v"," ","n","o","d","e","\n">>, 2 * KB - 1),
        listable |-> FALSE, stat_ok |-> TRUE, readable |-> TRUE],
       [kind |-> "dir", name |-> <<"t","a","r","g","e","t">>, bytes |-> <<>>,
        listable |-> TRUE, stat_ok |-> TRUE, readable |-> FALSE],
       [kind |-> "file", name |-> <<"b","i","g",".","m","d">>,
        bytes |-> Pad(<<"#"," ","b","i","g","\n">>, 2 * KB),
        listable |-> FALSE, stat_ok |-> TRUE, readable |-> TRUE],
       [kind |-> "file", name |-> <<"b","l","o","b",".","r","s">>,
        bytes |-> <<"f", "n", " ", "0xFF", "\n">>,
        listable |-> FALSE, stat_ok |-> TRUE, readable |-> TRUE],
       [kind |-> "dir", name |-> <<"l","o","c","k","e","d">>, bytes |-> <<>>,
        listable |-> FALSE, stat_ok |-> TRUE, readable |-> FALSE],
       [kind |-> "file", name |-> <<"R","E","A","D","M","E">>,
        bytes |-> <<"F","R","O","M"," ","s","c","r","a","t","c","h","\n">>,
        listable |-> FALSE, stat_ok |-> TRUE, readable |-> TRUE],
       [kind |-> "file", name |-> <<"s","e","c","r","e","t",".","r","s">>,
        bytes |-> <<"f","n"," ","s","(",")"," ","{","}","\n">>,
        listable |-> FALSE, stat_ok |-> TRUE, readable |-> FALSE],
       [kind |-> "symlink", name |-> <<"l","i","n","k">>, bytes |-> <<>>,
        listable |-> FALSE, stat_ok |-> TRUE, readable |-> FALSE],
       [kind |-> "file", name |-> <<"g","o","n","e",".","r","s">>, bytes |-> <<>>,
        listable |-> FALSE, stat_ok |-> FALSE, readable |-> FALSE] >>

\* A tree is the list of its entries in the order read_dir hands them out,
\* depth first (each directory followed by its contents): entry k is
\* [d |-> its depth below the root, c |-> its index in Catalog].
EntrySlots ==
    [d : 1..MaxEntries, c : DOMAIN Catalog]

\* The entry an entry at depth d, appended to t, would lie in (0: the root).
ParentAt(t, d) ==
    IF d = 1 THEN 0
    ELSE LET ks == {k \in 1..Len(t) : t[k].d = d - 1}
         IN  IF ks = {} THEN 0 ELSE CHOOSE k \in ks : \A j \in ks : j <= k

\* e may follow the entries of t: it lies in the root or in a listable
\* directory that is still open, and no entry of that directory has its name.
CanAppend(t, e) ==
    IF t = <<>> THEN e.d = 1
    ELSE LET p == ParentAt(t, e.d)
         IN  /\ e.d <= t[Len(t)].d + 1
             /\ e.d > 1 =>
                   /\ p > 0
                   /\ Catalog[t[p].c].kind = "dir"
                   /\ Catalog[t[p].c].listable
             /\ \A k \in (p + 1)..Len(t) : t[k].d = e.d => t[k].c # e.c

RECURSIVE TreesOfLen(_)
TreesOfLen(n) ==
    IF n = 0 THEN {<<>>}
    ELSE UNION {{Append(t, e) : e \in {x \in EntrySlots : CanAppend(t, x)}} :
                    t \in TreesOfLen(n - 1)}

AllTrees ==
    UNION {TreesOfLen(n) : n \in 0..MaxEntries}

(***************************************************************************)
(* The configuration generate_dump is called with.                         *)
(***************************************************************************)

Range(s) ==
    {s[k] : k \in DOMAIN s}

\* --exclude lists, split at ','.
ExcludeLists ==
    << <<<<".","g","i","t">>, <<"t","a","r","g","e","t">>>>,
       <<<<"s","r","c">>>> >>

\* --extensions, split at ',' and lower-cased: the default list.
extensions ==
    DEFAULT_EXTENSIONS

\* --max-size values.
SizeLimits ==
    {0, 1}

\* --max-files values.
FileCaps ==
    0..MaxFilesCap

\* Every cap with the first size limit and exclude list; the other size
\* limits and exclude lists with the largest cap.
Configs ==
    [max_size_kb : {1}, exclude_dirs : {ExcludeLists[1]}, max_files : FileCaps]
        \cup [max_size_kb : SizeLimits, exclude_dirs : Range(ExcludeLists),
              max_files : {MaxFilesCap}]

(***************************************************************************)
(* State.                                                                  *)
(***************************************************************************)

VARIABLES
    fs,          \* the scanned tree (fixed during a run)
    cfg,         \* the arguments of generate_dump
    pc,          \* where generate_dump is: "start", "walk", "assemble", "done"
    walker,      \* generate_tree_view: the items the walker has yet to yield
    file_count,  \* generate_tree_view: file_count
    tree,        \* generate_tree_view: tree, as its lines
    files,       \* generate_tree_view: files; then included_files
    results,     \* generate_dump: what each par_iter item has produced
    completion,  \* the order in which the par_iter items finished
    output,      \* generate_dump: output
    ret,         \* what generate_dump returned
    cls,         \* one call of language_for_extension
    clip         \* one call of set_clipboard

vars ==
    <<fs, cfg, pc, walker, file_count, tree, files, results, completion,
      output, ret, cls, clip>>

dumpVars ==
    <<fs, cfg, pc, walker, file_count, tree, files, results, completion,
      output, ret>>

(***************************************************************************)
(* Entries of the scanned tree.                                            *)
(***************************************************************************)

Entry(i) ==
    Catalog[fs[i].c]

\* entry.depth()
Depth(i) ==
    fs[i].d

\* The directory entry i lies in (0: the root).
Parent(i) ==
    ParentAt(SubSeq(fs, 1, i - 1), fs[i].d)

\* The last entry of the subtree of entry i.
RECURSIVE SubtreeEnd(_, _)
SubtreeEnd(i, k) ==
    IF k + 1 <= Len(fs) /\ fs[k + 1].d > fs[i].d
    THEN SubtreeEnd(i, k + 1) ELSE k

\* entry.path() with the root stripped: the names from the root down to i.
RECURSIVE RelPath(_)
RelPath(i) ==
    IF Parent(i) = 0 THEN <<Entry(i).name>>
    ELSE Append(RelPath(Parent(i)), Entry(i).name)

\* Path::extension: the text after the last '.' of the file name; none when
\* the name has no '.', or only a leading one.
Extension(name) ==
    LET dots == {k \in 1..Len(name) : name[k] = "."}
    IN  IF dots = {} THEN <<>>
        ELSE LET k == CHOOSE d \in dots : \A e \in dots : e <= d
             IN  IF k = 1 THEN <<>> ELSE SubSeq(name, k + 1, Len(name))

(***************************************************************************)
(* generate_tree_view                                                      *)
(***************************************************************************)

\* exclude_dirs.iter().any(|d| name == *d)
IsExcluded(name) ==
    \E k \in 1..Len(cfg.exclude_dirs) : cfg.exclude_dirs[k] = name

\* A walker whose filter skips a rejected entry but still descends into it.
RECURSIVE WalkFromNoPrune(_)
WalkFromNoPrune(i) ==
    IF i > Len(fs) THEN <<>>
    ELSE IF IsExcluded(Entry(i).name) THEN WalkFromNoPrune(i + 1)
    ELSE IF Entry(i).kind = "dir" /\ ~Entry(i).listable
         THEN <<[ok |-> TRUE, entry |-> i], [ok |-> FALSE, entry |-> i]>>
                  \o WalkFromNoPrune(SubtreeEnd(i, i) + 1)
    ELSE <<[ok |-> TRUE, entry |-> i]>> \o WalkFromNoPrune(i + 1)

\* What WalkDir::new(path).min_depth(1).follow_links(false).into_iter()
\* .filter_entry(..) yields from entry i on.  An entry the filter rejects is
\* skipped together with everything below it.  A directory is yielded
\* before its contents; when it cannot be listed the error follows it.
RECURSIVE WalkFrom(_)
WalkFrom(i) ==
    IF i > Len(fs) THEN <<>>
    ELSE IF IsExcluded(Entry(i).name) THEN WalkFrom(SubtreeEnd(i, i) + 1)
    ELSE IF Entry(i).kind = "dir" /\ ~Entry(i).listable
         THEN <<[ok |-> TRUE, entry |-> i], [ok |-> FALSE, entry |-> i]>>
                  \o WalkFrom(SubtreeEnd(i, i) + 1)
    ELSE <<[ok |-> TRUE, entry |-> i]>> \o WalkFrom(i + 1)

\* A size in kilobytes that rounds up instead of truncating.
SizeKbRoundedUp(i) ==
    (Len(Entry(i).bytes) + KB - 1) \div KB

\* metadata.len() / 1024
SizeKb(i) ==
    Len(Entry(i).bytes) \div KB

\* entry_path.extension().and_then(|e| e.to_str()).unwrap_or("")
\*     .to_lowercase()
Ext(i) ==
    ToLowercase(Extension(Entry(i).name))

\* extensions.contains(&ext) && size_kb <= max_size_kb as u64
Accepts(i) ==
    LET ext == Ext(i)
    IN  /\ \E k \in 1..Len(extensions) : extensions[k] = ext
        /\ SizeKb(i) <= cfg.max_size_kb

\* A cap test that is late by one: file_count > max_files.
CapReachedLate ==
    file_count > cfg.max_files

\* file_count >= max_files
CapReached ==
    file_count >= cfg.max_files

\* let prefix = if depth == 1 { .. } else { .. }: the connector glyph, by
\* name ("tee" is U+251C U+2500 U+2500 and a space, "corner" starts with
\* U+2514 instead).
Prefix(i) ==
    IF Depth(i) = 1 THEN "tee" ELSE "corner"

\* format!("{}{}{} [{}kb]\n", indent, prefix, rel_path, size_kb)
FileLine(i) ==
    [indent |-> Depth(i) - 1, prefix |-> Prefix(i), path |-> RelPath(i),
     kind |-> "file", size_kb |-> SizeKb(i)]

\* format!("{}{}{}/\n", indent, prefix, rel_path)
DirLine(i) ==
    [indent |-> Depth(i) - 1, prefix |-> Prefix(i), path |-> RelPath(i),
     kind |-> "dir", size_kb |-> 0]

\* format!("{}/\n", base)
RootLine ==
    [indent |-> 0, prefix |-> "", path |-> <<>>, kind |-> "root",
     size_kb |-> 0]

Pending ==
    [state |-> "pending"]

\* generate_tree_view returns e: generate_dump returns it too (the `?`).
FailWalk(i, what) ==
    /\ pc' = "done"
    /\ ret' = [ok |-> FALSE, at |-> what, entry |-> i]
    /\ UNCHANGED <<walker, file_count, tree, files, results, completion,
                   output>>

\* generate_tree_view returns Ok((tree, files)); generate_dump writes the
\* header and the tree to output and starts the par_iter.
ReturnTree ==
    /\ pc' = "assemble"
    /\ output' = [header |-> "# project structure\n\n", tree |-> tree,
                  sep |-> "\n\n", blocks |-> <<>>]
    /\ results' = [k \in 1..Len(files) |-> Pending]
    /\ UNCHANGED <<walker, file_count, tree, files, completion, ret>>

\* generate_dump calls generate_tree_view, which sets up its locals and the
\* walker.
GenerateTreeView ==
    /\ pc = "start"
    /\ pc' = "walk"
    /\ file_count' = 0
    /\ tree' = <<RootLine>>
    /\ files' = <<>>
    /\ walker' = WalkFrom(1)
    /\ UNCHANGED <<fs, cfg, results, completion, output, ret, cls, clip>>

\* One turn of `for entry in walker`, or the end of the loop.
WalkStep ==
    /\ pc = "walk"
    /\ UNCHANGED <<fs, cfg, cls, clip>>
    /\ IF walker = <<>> THEN ReturnTree
       ELSE LET item == Head(walker)
                i    == item.entry
            IN  IF ~item.ok THEN FailWalk(i, "read_dir")
                ELSE IF Entry(i).kind = "symlink"
                     \/ (Depth(i) > 0 /\ IsExcluded(Entry(i).name))
                THEN /\ walker' = Tail(walker)
                     /\ UNCHANGED <<pc, file_count, tree, files, results,
                                    completion, output, ret>>
                ELSE IF CapReached THEN ReturnTree
                ELSE IF Entry(i).kind = "file"
                THEN IF ~Entry(i).stat_ok THEN FailWalk(i, "metadata")
                     ELSE /\ walker' = Tail(walker)
                          /\ IF Accepts(i)
                             THEN /\ file_count' = file_count + 1
                                  /\ tree' = Append(tree, FileLine(i))
                                  /\ files' = Append(files, RelPath(i))
                             ELSE UNCHANGED <<file_count, tree, files>>
                          /\ UNCHANGED <<pc, results, completion, output,
                                         ret>>
                ELSE /\ walker' = Tail(walker)
                     /\ tree' = Append(tree, DirLine(i))
                     /\ UNCHANGED <<pc, file_count, files, results,
                                    completion, output, ret>>

(***************************************************************************)
(* generate_dump                                                           *)
(***************************************************************************)

\* base.join(relative_path): the entry the path names.
Resolve(path) ==
    CHOOSE i \in 1..Len(fs) : RelPath(i) = path

\* A lossy decoding, which accepts every buffer.
FromUtf8Lossy(bytes) ==
    TRUE

\* String::from_utf8(buffer).is_ok()
FromUtf8Ok(bytes) ==
    \A k \in 1..Len(bytes) : bytes[k] # "0xFF"

\* format!("# file: {}\n\n```{}\n{}\n```\n\n", relative_path, lang, content)
FileDump(path, lang, content) ==
    [path |-> path, lang |-> lang, content |-> content]

\* The closure of par_iter().map(..) on one path: Err when the file cannot
\* be opened or read, Ok(String::new()) when it is not UTF-8, else Ok of its
\* block.  A String is the list of the blocks it holds.
ProcessFile(path) ==
    LET i == Resolve(path)
    IN  IF ~Entry(i).readable
        THEN [state |-> "err", entry |-> i]
        ELSE IF ~FromUtf8Ok(Entry(i).bytes)
        THEN [state |-> "ok", text |-> <<>>]
        ELSE [state |-> "ok",
              text |-> <<FileDump(path,
                                  language_for_extension(
                                      ToLowercase(Extension(path[Len(path)])),
                                      Entry(i).bytes),
                                  Entry(i).bytes)>>]

\* Blocks gathered in the order the items finished in.
CollectOrderByCompletion ==
    completion

\* collect() into a Vec keeps the order of included_files, whatever the
\* order the items finished in.
CollectOrder ==
    [k \in 1..Len(files) |-> k]

RECURSIVE PushAll(_, _)
PushAll(order, out) ==
    IF order = <<>> THEN out
    ELSE PushAll(Tail(order), out \o results[Head(order)].text)

\* One item of the par_iter runs to its end on some worker thread.
ProcessItem(k) ==
    /\ pc = "assemble"
    /\ results[k] = Pending
    /\ results' = [results EXCEPT ![k] = ProcessFile(files[k])]
    /\ completion' = Append(completion, k)
    /\ UNCHANGED <<fs, cfg, pc, walker, file_count, tree, files, output, ret,
                   cls, clip>>

\* collect::<Result<Vec<String>>>() ends: with one of the errors as soon as
\* an item has failed (the rest may never run), else with every block, and
\* then `for file_out in files_output?` appends them to output.
Collect ==
    /\ pc = "assemble"
    /\ LET failed == {k \in DOMAIN results : results[k].state = "err"}
       IN  IF failed # {}
           THEN /\ \E k \in failed :
                       ret' = [ok |-> FALSE, at |-> "read",
                               entry |-> results[k].entry]
                /\ UNCHANGED output
           ELSE /\ \A k \in DOMAIN results : results[k] # Pending
                /\ output' = [output EXCEPT
                                 !.blocks = PushAll(CollectOrder, <<>>)]
                /\ ret' = [ok |-> TRUE, at |-> "", entry |-> 0]
    /\ pc' = "done"
    /\ UNCHANGED <<fs, cfg, walker, file_count, tree, files, results,
                   completion, cls, clip>>

(***************************************************************************)
(* set_clipboard                                                           *)
(***************************************************************************)

\* let max_attempts = 3
max_attempts == 3

\* Duration::from_millis(50)
SleepMs == 50

\* What Clipboard::new().and_then(|mut c| c.set_text(text)) can come to.
ClipErrors ==
    {"ClipboardOccupied", "ClipboardNotSupported"}

ClipOutcomes ==
    {[ok |-> TRUE, stage |-> "set_text", err |-> ""]}
        \cup [ok : {FALSE}, stage : {"new", "set_text"}, err : ClipErrors]

\* A last-attempt test that is late by one: attempts == max_attempts.
IsLastAttemptLate(attempts) ==
    attempts = max_attempts

\* Err(e) if attempts == max_attempts - 1
IsLastAttempt(attempts) ==
    attempts = max_attempts - 1

\* One turn of `while attempts < max_attempts`, or the end of the loop.
SetClipboardTurn ==
    /\ clip.pc = "loop"
    /\ IF clip.attempts < max_attempts
       THEN \E o \in ClipOutcomes :
               LET tried == Append(clip.events, [ev |-> "attempt", out |-> o])
               IN  IF o.ok
                   THEN clip' = [clip EXCEPT !.events = tried,
                                             !.board = clip.text,
                                             !.pc = "returned",
                                             !.ret = [ok |-> TRUE, err |-> ""]]
                   ELSE IF IsLastAttempt(clip.attempts)
                   THEN clip' = [clip EXCEPT !.events = tried,
                                             !.pc = "returned",
                                             !.ret = [ok |-> FALSE,
                                                      err |-> o.err]]
                   ELSE clip' = [clip EXCEPT
                                    !.events = Append(tried,
                                                      [ev |-> "sleep",
                                                       out |-> SleepMs]),
                                    !.attempts = clip.attempts + 1]
       ELSE clip' = [clip EXCEPT !.pc = "returned",
                                 !.ret = [ok |-> TRUE, err |-> ""]]
    /\ UNCHANGED <<dumpVars, cls>>

(***************************************************************************)
(* Specifications.                                                         *)
(***************************************************************************)

\* The values of the variables of generate_dump while it is not running.
IdleCfg ==
    [max_size_kb |-> 0, exclude_dirs |-> <<>>, max_files |-> 0]

IdleCls ==
    [ext |-> <<>>, content |-> <<>>, tag |-> "", done |-> TRUE]

IdleClip ==
    [text |-> <<>>, attempts |-> 0, pc |-> "idle", events |-> <<>>,
     board |-> <<>>, ret |-> [ok |-> TRUE, err |-> ""]]

\* generate_dump is called on some tree with some configuration.
Init ==
    /\ fs \in AllTrees
    /\ cfg \in Configs
    /\ pc = "start"
    /\ walker = <<>>
    /\ file_count = 0
    /\ tree = <<>>
    /\ files = <<>>
    /\ results = <<>>
    /\ completion = <<>>
    /\ output = [header |-> "", tree |-> <<>>, sep |-> "", blocks |-> <<>>]
    /\ ret = [ok |-> TRUE, at |-> "", entry |-> 0]
    /\ cls = IdleCls
    /\ clip = IdleClip

Next ==
    \/ GenerateTreeView
    \/ WalkStep
    \/ \E k \in DOMAIN results : ProcessItem(k)
    \/ Collect

Spec ==
    Init /\ [][Next]_vars

\* The texts set_clipboard is called with.
ClipTexts ==
    { <<>>,
      <<"#"," ","p","r","o","j","e","c","t"," ","s","t","r","u","c","t","u","r","e","\n","\n",".","/","\n","\n">> }

\* set_clipboard(text) is called; the clipboard holds something else.
ClipInit ==
    /\ fs = <<>>
    /\ cfg = IdleCfg
    /\ pc = "done"
    /\ walker = <<>>
    /\ file_count = 0
    /\ tree = <<>>
    /\ files = <<>>
    /\ results = <<>>
    /\ completion = <<>>
    /\ output = [header |-> "", tree |-> <<>>, sep |-> "", blocks |-> <<>>]
    /\ ret = [ok |-> TRUE, at |-> "", entry |-> 0]
    /\ cls = IdleCls
    /\ clip \in [text : ClipTexts, attempts : {0}, pc : {"loop"},
                 events : {<<>>}, board : {<<"o", "l", "d">>},
                 ret : {[ok |-> TRUE, err |-> ""]}]

ClipNext ==
    SetClipboardTurn

\* The loop runs on its own thread of control and is never suspended for
\* good: each turn that can be taken is taken.
ClipSpec ==
    ClipInit /\ [][ClipNext]_vars /\ WF_vars(ClipNext)

\* The extensions and contents language_for_extension is called with.
ExtSamples ==
    { <<>>,
      <<"r","s">>,
      <<"p","y">>,
      <<"s","h">>,
      <<"x","y","z">>,
      <<"t","e","x">>,
      <<"m","d">>,
      <<"b","a","t">> }

ContentSamples ==
    { <<"f","n"," ","m","a","i","n","(",")"," ","{","}","\n">>,
      <<"#","!","/","u","s","r","/","b","i","n","/","e","n","v"," ","p","y","t","h","o","n","3","\n","p","r","i","n","t","(","1",")","\n">>,
      <<"#","!","/","b","i","n","/","b","a","s","h","\n","e","c","h","o"," ","h","i","\n">>,
      <<"#","!","/","u","s","r","/","b","i","n","/","e","n","v"," ","n","o","d","e","\r","\n">>,
      <<"#","!","/","u","s","r","/","b","i","n","/","e","n","v"," ","f","o","o","\n","F","R","O","M"," ","s","c","r","a","t","c","h","\n">>,
      <<"F","R","O","M"," ","u","b","u","n","t","u",":","2","2",".","0","4","\n">>,
      <<"e","x","p","o","r","t"," ","J","A","V","A","_","H","O","M","E","=","/","o","p","t","\n">>,
      <<>>,
      <<"#","!"," ","/","u","s","r","/","l","o","c","a","l","/","b","i","n","/","R","s","c","r","i","p","t"," ","-","-","v","a","n","i","l","l","a","\n">>,
      <<"#","!","/","u","s","r","/","b","i","n","/","e","n","v"," ","-","S"," ","n","o","d","e","\n">>,
      <<"#","!","p","y","t","h","o","n","\n","J","A","V","A","_","H","O","M","E","\n">>,
      <<"h","e","l","l","o","\n","#","!","/","b","i","n","/","s","h","\n">>,
      <<"J","A","V","A","_","H","O","M","E"," ","F","R","O","M"," ","x">>,
      <<"#","!","/","u","s","r","/","b","i","n","/","p","e","r","l","5"," ","-","w","\n","F","R","O","M"," ","x","\n">> }

ClassifyInit ==
    /\ fs = <<>>
    /\ cfg = IdleCfg
    /\ pc = "done"
    /\ walker = <<>>
    /\ file_count = 0
    /\ tree = <<>>
    /\ files = <<>>
    /\ results = <<>>
    /\ completion = <<>>
    /\ output = [header |-> "", tree |-> <<>>, sep |-> "", blocks |-> <<>>]
    /\ ret = [ok |-> TRUE, at |-> "", entry |-> 0]
    /\ cls \in [ext : ExtSamples, content : ContentSamples, tag : {""},
                done : {FALSE}]
    /\ clip = IdleClip

\* language_for_extension(ext, content) is evaluated.
Classify ==
    /\ ~cls.done
    /\ cls' = [cls EXCEPT !.tag = language_for_extension(cls.ext, cls.content),
                          !.done = TRUE]
    /\ UNCHANGED <<dumpVars, clip>>

ClassifyNext ==
    Classify

ClassifySpec ==
    ClassifyInit /\ [][ClassifyNext]_vars

(***************************************************************************)
(* Notions the properties are stated in.  They are spelled out from the    *)
(* tree and the configuration, not from the operators of the walk.         *)
(***************************************************************************)

\* j lies somewhere below directory i.
Below(j, i) ==
    /\ i < j
    /\ \A k \in (i + 1)..j : fs[k].d > fs[i].d

NameExcluded(i) ==
    Catalog[fs[i].c].name \in Range(cfg.exclude_dirs)

\* Neither entry i nor a directory above it bears an excluded name.
NotExcluded(i) ==
    /\ ~NameExcluded(i)
    /\ \A a \in 1..Len(fs) : Below(i, a) => ~NameExcluded(a)

IsFile(i) ==
    Catalog[fs[i].c].kind = "file"

ByteLen(i) ==
    Len(Catalog[fs[i].c].bytes)

\* The catalog entries whose lower-cased extension is an accepted one.
AcceptedEntries ==
    {c \in DOMAIN Catalog :
        ToLowercase(Extension(Catalog[c].name)) \in Range(extensions)}

ExtAccepted(i) ==
    fs[i].c \in AcceptedEntries

\* The size is within the limit: at most max_size_kb whole kilobytes.
SizeWithin(i) ==
    ByteLen(i) < (cfg.max_size_kb + 1) * 1024

\* A qualifying file: accepted extension, size within the limit, not excluded.
Qualifies(i) ==
    /\ IsFile(i)
    /\ Catalog[fs[i].c].stat_ok
    /\ NotExcluded(i)
    /\ ExtAccepted(i)
    /\ SizeWithin(i)

\* The loop body has dealt with entry i (the walk goes through the entries
\* in the order of the tree and has not stopped before i).
Visited(i) ==
    /\ pc # "start"
    /\ NotExcluded(i)
    /\ walker = <<>> \/ i < Head(walker).entry

\* generate_tree_view has returned Ok.
WalkReturnedOk ==
    \/ pc = "assemble"
    \/ pc = "done" /\ (ret.ok \/ ret.at = "read")

Selected(i) ==
    RelPath(i) \in Range(files)

Rendered(i) ==
    \E k \in DOMAIN tree : tree[k].kind # "root" /\ tree[k].path = RelPath(i)

FileLines(t) ==
    SelectSeq(t, LAMBDA l : l.kind = "file")

HasBlock(i) ==
    \E k \in DOMAIN output.blocks : output.blocks[k].path = RelPath(i)

\* The catalog entries whose bytes are UTF-8: none of them is 0xFF.
TextEntries ==
    {c \in DOMAIN Catalog :
        \A k \in DOMAIN Catalog[c].bytes : Catalog[c].bytes[k] # "0xFF"}

IsText(i) ==
    fs[i].c \in TextEntries

(***************************************************************************)
(* Properties.                                                             *)
(***************************************************************************)

C2_ExclusionCorrect ==
    \A i \in 1..Len(fs) :
        (Catalog[fs[i].c].kind = "dir" /\ NameExcluded(i)) =>
            /\ ~Rendered(i)
            /\ \A j \in 1..Len(fs) :
                   Below(j, i) =>
                       /\ ~Rendered(j)
                       /\ ~Selected(j)
                       /\ ~HasBlock(j)
                       /\ \A k \in DOMAIN output.tree :
                              output.tree[k].path # RelPath(j)

\* C2 witness: the walk ran to its end below its cap, past an excluded
\* directory that holds, two levels down, a file with an accepted extension
\* and a size within the limit.
C2_Witness ==
    /\ pc = "done"
    /\ ret.ok
    /\ walker = <<>>
    /\ \E i, j \in 1..Len(fs) :
           /\ Catalog[fs[i].c].kind = "dir"
           /\ NameExcluded(i)
           /\ Below(j, i)
           /\ fs[j].d >= fs[i].d + 2
           /\ IsFile(j) /\ ExtAccepted(j) /\ SizeWithin(j)

\* C3: a directory that cannot be listed, or a file whose metadata cannot
\* be read, is skipped and the walk goes on: generate_dump never returns
\* the error of such an entry.
C3_WalkErrorsRecoverable ==
    ~(pc = "done" /\ ~ret.ok /\ ret.at \in {"read_dir", "metadata"})

\* C4: a selected file that cannot be read loses its block only:
\* generate_dump still succeeds, with the blocks of the other selected files.
C4_ReadErrorsRecoverable ==
    (pc = "done" /\ WalkReturnedOk) =>
        /\ ret.ok
        /\ \A i \in 1..Len(fs) :
               (Selected(i) /\ Catalog[fs[i].c].readable /\ IsText(i))
                   => HasBlock(i)

\* C5: a selected file that is not UTF-8 contributes nothing to the
\* document and does not make generate_dump fail; every other selected file
\* has its block, with its own bytes as content.
C5_NonTextSkipped ==
    pc = "done" =>
        /\ (WalkReturnedOk
               /\ \A i \in 1..Len(fs) :
                      Selected(i) => Catalog[fs[i].c].readable)
              => ret.ok
        /\ ret.ok =>
              /\ \A k \in DOMAIN output.blocks :
                     /\ output.blocks[k].path \in Range(files)
                     /\ IsText(Resolve(output.blocks[k].path))
                     /\ output.blocks[k].content =
                            Catalog[fs[Resolve(output.blocks[k].path)].c].bytes
              /\ \A i \in 1..Len(fs) :
                     (Selected(i) /\ IsText(i)) =>
                         Cardinality({k \in DOMAIN output.blocks :
                                         output.blocks[k].path = RelPath(i)})
                             = 1

\* C5 witness: a dump that succeeded although a selected file is not UTF-8,
\* and that holds the block of another selected file.
C5_Witness ==
    /\ pc = "done"
    /\ ret.ok
    /\ \E i, j \in 1..Len(fs) :
           /\ Selected(i) /\ ~IsText(i) /\ ~HasBlock(i)
           /\ Selected(j) /\ HasBlock(j)

\* The clipboard writes set_clipboard has attempted, in order.
C6_Attempts ==
    SelectSeq(clip.events, LAMBDA e : e.ev = "attempt")

\* What holds of set_clipboard at every moment.
C6_Safe ==
    /\ Len(C6_Attempts) <= 3
    /\ \A k \in 1..(Len(clip.events) - 1) :
           clip.events[k].ev = "attempt" =>
               /\ ~clip.events[k].out.ok
               /\ clip.events[k + 1].ev = "sleep"
    /\ clip.pc = "loop" =>
           \A k \in DOMAIN C6_Attempts : ~C6_Attempts[k].out.ok
    /\ clip.pc = "returned" =>
           /\ Len(C6_Attempts) >= 1
           /\ clip.ret.ok <=> C6_Attempts[Len(C6_Attempts)].out.ok
           /\ clip.ret.ok => clip.board = clip.text
           /\ ~clip.ret.ok <=>
                  /\ Len(C6_Attempts) = 3
                  /\ \A k \in 1..3 : ~C6_Attempts[k].out.ok
           /\ ~clip.ret.ok => clip.ret.err = C6_Attempts[3].out.err

\* C6: set_clipboard tries the clipboard at most 3 times, sleeps between
\* two attempts, returns Ok at the first attempt that succeeds and tries no
\* more, returns an error exactly when all 3 attempts failed (the error of
\* the third), never returns Ok without a successful write, and always
\* returns.
C6_ClipboardRetry ==
    /\ []C6_Safe
    /\ <>(clip.pc = "returned")

\* C6 witness: set_clipboard has returned the error of its third attempt,
\* after two sleeps.
C6_Witness ==
    /\ clip.pc = "returned"
    /\ ~clip.ret.ok
    /\ Len(C6_Attempts) = 3
    /\ Len(clip.events) = 5
    /\ clip.board # clip.text

\* C7: size boundary.  With maximum size M, a file with an accepted
\* extension that the walk deals with is in the tree's file lines and in the
\* selection when its size is at most M whole kilobytes (up to
\* M * 1024 + 1023 bytes), and in neither from (M + 1) * 1024 bytes on.
C7_SizeBoundary ==
    \A i \in 1..Len(fs) :
        (Visited(i) /\ IsFile(i) /\ Catalog[fs[i].c].stat_ok
             /\ ExtAccepted(i)) =>
            /\ ByteLen(i) <= cfg.max_size_kb * 1024 + 1023
                  => (Selected(i) /\ Rendered(i))
            /\ ByteLen(i) >= (cfg.max_size_kb + 1) * 1024
                  => (~Selected(i) /\ ~Rendered(i))

\* C7 witness: the walk has dealt with a file of M * 1024 + 1023 bytes,
\* which is selected, and with one of one byte more, which is not.
C7_Witness ==
    /\ pc = "done"
    /\ \E i, j \in 1..Len(fs) :
           /\ Visited(i) /\ IsFile(i) /\ ExtAccepted(i)
           /\ ByteLen(i) = cfg.max_size_kb * 1024 + 1023
           /\ Selected(i)
           /\ Visited(j) /\ IsFile(j) /\ ExtAccepted(j)
           /\ ByteLen(j) = ByteLen(i) + 1
           /\ ~Selected(j)

\* C8: a file without extension is selected when a special-file rule
\* applies to its content, its size is within the limit and the cap is not
\* reached, although the empty extension is not an accepted extension.
C8_ExtensionlessSelected ==
    \A i \in 1..Len(fs) :
        (/\ Visited(i)
         /\ IsFile(i)
         /\ Catalog[fs[i].c].stat_ok
         /\ Extension(Catalog[fs[i].c].name) = <<>>
         /\ detect_special_file(Catalog[fs[i].c].bytes) # ""
         /\ SizeWithin(i)
         /\ <<>> \notin Range(extensions))
            => Selected(i)

\* C9: whatever the order the parallel items finish in, the blocks of the
\* document are in selection order, which is also the order of the file
\* lines of the tree: the k-th file line names the k-th selected file, a
\* block never precedes the block of a file selected before its own, and
\* when every selected file is text the k-th block is that of the k-th
\* selected file.
C9_SelectionOrder ==
    /\ \A k \in DOMAIN FileLines(tree) :
           k <= Len(files) /\ FileLines(tree)[k].path = files[k]
    /\ (pc = "done" /\ ret.ok) =>
           /\ \A k \in DOMAIN output.blocks :
                  output.blocks[k].path \in Range(files)
           /\ \A a, b \in DOMAIN output.blocks :
                  a < b =>
                      \E x, y \in DOMAIN files :
                          /\ x < y
                          /\ files[x] = output.blocks[a].path
                          /\ files[y] = output.blocks[b].path
           /\ (\A k \in DOMAIN files : IsText(Resolve(files[k]))) =>
                  /\ Len(output.blocks) = Len(files)
                  /\ \A k \in DOMAIN files : output.blocks[k].path = files[k]
           /\ FileLines(output.tree) = FileLines(tree)

\* C9 witness: a document of at least two blocks whose items finished in
\* another order than the selection order.
C9_Witness ==
    /\ pc = "done"
    /\ ret.ok
    /\ Len(output.blocks) >= 2
    /\ \E a, b \in DOMAIN completion :
           a < b /\ completion[a] > completion[b]

\* The tag of a chain of three strategies, each tried until one yields.
C10_ChainTag(ext, content) ==
    IF \E p \in LANG_MAP : p[1] = ext
    THEN (CHOOSE p \in LANG_MAP : p[1] = ext)[2]
    ELSE IF detect_shebang(content) # "" THEN detect_shebang(content)
    ELSE IF ext = <<>> /\ detect_special_file(content) # ""
    THEN detect_special_file(content)
    ELSE ""

\* C10: language_for_extension tries the extension table, then the
\* shebang, then (for an empty extension) the content markers, each until
\* one yields a tag, and returns the empty tag only when none does.
C10_ClassifierChain ==
    cls.done => cls.tag = C10_ChainTag(cls.ext, cls.content)

====
